---- MODULE Spec2Model ----
(***************************************************************************)
(* Model of weav_cluster.py: the two transfer loops (batch_import_data and *)
(* migrate_data) run against the batching client of the vector store, and  *)
(* the module-level script that decides when each of them is called.       *)
(*                                                                         *)
(* The client library and the server are the environment.  What the model  *)
(* takes from them is their interface: add_object queues a request, a      *)
(* background sender takes requests off the queue in batches and reports   *)
(* each request as stored or failed, number_errors is the number of failed *)
(* requests so far, leaving the `with` block waits until the queue has     *)
(* been sent, and failed_objects lists the failed requests of the block.   *)
(***************************************************************************)
EXTENDS Integers, Sequences, FiniteSets, TLC

VARIABLES
    fn,              \* the transfer function of the run: "import" or "migrate"
    src,             \* source_objects / the objects collection_src.iterator() yields
    batch_size,      \* batch_size argument (import); the literal 100 (migrate)
    error_threshold, \* error_threshold argument (import)
    pc,              \* position of the running function
    idx,             \* number of records the for loop has pulled
    success_count,   \* local success_count
    error_count,     \* local error_count (migrate_data)
    vector_key,      \* local vector_key (migrate_data)
    term,            \* how the loop was left: "none", "exhausted", "threshold", "fatal"
    ret,             \* the value returned
    queue,           \* requests added to the batch and not sent yet
    failed,          \* failed_objects of the batch (number_errors is its length)
    lastBatch,       \* size of the batch the sender submitted last (0: none yet)
    sinkOK,          \* requests the sink reported as stored during this call
    stored,          \* requests the sink reported as stored over all calls
    db,              \* the collections of the server: name -> set of stored objects
    nextId,          \* next identifier the server hands to an object written without one
    runs,            \* calls of the function made so far
    spc,             \* position of the script ("none": the function is called directly)
    collection_names,\* the names listed at line 215
    exists,          \* the collections that exist on the server
    scriptRuns,      \* runs of the script started so far
    migrated,        \* script runs in which migrate_data was called
    created          \* script runs that created NewCollection

vars == <<fn, src, batch_size, error_threshold, pc, idx, success_count, error_count,
          vector_key, term, ret, queue, failed, lastBatch, sinkOK, stored, db, nextId,
          runs, spc, collection_names, exists, scriptRuns, migrated, created>>

scriptVars == <<spc, collection_names, exists, scriptRuns, migrated, created>>

----
\* Bounds of the model.
MaxLen == 3        \* longest source sequence
MaxRuns == 2       \* calls of one function on the same source
MaxScriptRuns == 3 \* runs of the script

\* Program constants.
MigrateBatchSize == 100   \* fixed_size(batch_size=100)
DefaultBatchSize == 100   \* batch_size=100
DefaultErrorThreshold == 10
NumSourceObjects == 5     \* len(source_objects) of the script

\* Values standing for absent things.
Missing == 0   \* a key the dict does not have
NoId == 0      \* uuid=None: the server assigns the identifier
NoVec == 0     \* vector=None: the server's vectorizer computes the vector

OriginalCollection == "OriginalCollection"
NewCollection == "NewCollection"

TV == "title_vector"
DV == "description_vector"

----
\* Source records.

\* A source object of batch_import_data: a dict that has "description" and may
\* lack "title".  i makes the objects of one source distinct.
ImportObjects(i) ==
    { [id |-> NoId, props |-> [title |-> t, description |-> i], vec |-> <<>>]
        : t \in {Missing, i} }

\* An object of the source collection of migrate_data: identifier i, its
\* properties, and its named vectors in the order vector.keys() lists them.
MigrateObjects(i) ==
    { [id |-> i, props |-> [title |-> i, description |-> i], vec |-> v]
        : v \in { <<>>,
                  << <<TV, 10 * i + 1>> >>,
                  << <<DV, 10 * i + 2>>, <<TV, 10 * i + 1>> >> } }

\* The objects a source of function f may hold at position i.
Objects(f, i) == IF f = "import" THEN ImportObjects(i) ELSE MigrateObjects(i)

RECURSIVE SeqsOf(_, _)
\* The sources of f of length n.
SeqsOf(f, n) ==
    IF n = 0 THEN { <<>> }
    ELSE { Append(s, o) : s \in SeqsOf(f, n - 1), o \in Objects(f, n) }

\* The sources of f: every sequence of at most MaxLen objects.
Sources(f) == UNION { SeqsOf(f, n) : n \in 0..MaxLen }

\* The arguments batch_import_data is called with: a batch size below the
\* length of the sources with no error tolerated, and the default batch size
\* with one error tolerated.
ImportArguments ==
    { [batch_size |-> 1, error_threshold |-> 0],
      [batch_size |-> DefaultBatchSize, error_threshold |-> 1] }

----
\* Helpers over Python values.

\* k in d, for a dict modelled with Missing for absent keys
HasKey(d, k) == d[k] # Missing

\* list(q.vector.keys())
VectorKeys(q) == [i \in 1..Len(q.vec) |-> q.vec[i][1]]

\* vector_key in q.vector
HasVector(q, key) == \E i \in 1..Len(q.vec) : q.vec[i][1] = key

\* q.vector[vector_key]
VectorAt(q, key) == q.vec[CHOOSE i \in 1..Len(q.vec) : q.vec[i][1] = key][2]

\* The arguments batch_import_data passes to add_object (lines 51-57).
ImportRequest(o) ==
    [uuid |-> NoId,
     properties |-> [title |-> o.props.title, description |-> o.props.description],
     vector |-> NoVec]

\* Whether building the arguments raises KeyError (lines 53-54).
ImportRaises(o) == ~HasKey(o.props, "title") \/ ~HasKey(o.props, "description")

\* migrate_data taking each record's own first vector instead of the vector
\* under the selected name.
MigrateRequestOwnFirstVector(q, key) ==
    [uuid |-> q.id, properties |-> q.props, vector |-> q.vec[1][2]]

\* migrate_data adding the object without uuid, as batch_import_data does.
MigrateRequestWithoutUuid(q, key) ==
    [uuid |-> NoId, properties |-> q.props, vector |-> VectorAt(q, key)]

\* The arguments migrate_data passes to add_object (lines 185-189).
MigrateRequest(q, key) ==
    [uuid |-> q.id, properties |-> q.props, vector |-> VectorAt(q, key)]

\* Whether q.vector[vector_key] raises KeyError (line 187).
MigrateRaises(q, key) == ~HasVector(q, key)

Raises(f, o, key) == IF f = "import" THEN ImportRaises(o) ELSE MigrateRaises(o, key)
Request(f, o, key) == IF f = "import" THEN ImportRequest(o) ELSE MigrateRequest(o, key)

\* The collection a function writes to.
Target(f) == IF f = "import" THEN OriginalCollection ELSE NewCollection

\* batch.number_errors
number_errors == Len(failed)

\* The check of line 61.
ThresholdExceeded == number_errors > error_threshold

\* The value of line 80, of line 84, of line 204 and of line 208.
ImportReturn == [success_count |-> success_count, failed_objects |-> failed, ok |-> TRUE]
ImportFatalReturn == [success_count |-> 0, failed_objects |-> <<>>, ok |-> FALSE]
MigrateReturn == [success_count |-> 0, failed_objects |-> <<>>, ok |-> error_count = 0]
MigrateFatalReturn == [success_count |-> 0, failed_objects |-> <<>>, ok |-> FALSE]
NoReturn == [success_count |-> 0, failed_objects |-> <<>>, ok |-> FALSE]

----
\* The server.

\* The object the server stores for a request: an object written without uuid
\* gets a fresh identifier, one written without vector gets the vectorizer's.
Stored(r, fresh) ==
    LET i == IF r.uuid = NoId THEN fresh ELSE r.uuid
    IN  [id |-> i, props |-> r.properties,
         vec |-> << <<TV, IF r.vector = NoVec THEN 10 * i + 1 ELSE r.vector>> >>]

RECURSIVE StoreAll(_, _, _)
\* The collection after the requests rs are written in order: the identifier
\* is the write key, a write with the identifier of a stored object replaces it.
StoreAll(coll, rs, fresh) ==
    IF rs = <<>> THEN coll
    ELSE LET o == Stored(Head(rs), fresh)
             n == IF Head(rs).uuid = NoId THEN fresh + 1 ELSE fresh
         IN  StoreAll({ x \in coll : x.id # o.id } \cup {o}, Tail(rs), n)

RECURSIVE SelectSeq2(_, _, _)
\* The elements of s whose position is (keep) or is not (~keep) in the set ps.
SelectSeq2(s, ps, keep) ==
    IF s = <<>> THEN <<>>
    ELSE LET rest == SelectSeq2(Tail(s), { p - 1 : p \in ps }, keep)
         IN  IF (1 \in ps) = keep THEN <<Head(s)>> \o rest ELSE rest

NumFresh(rs) == Cardinality({ i \in 1..Len(rs) : rs[i].uuid = NoId })

\* The objects of a collection in the order its iterator yields them.
RECURSIVE IterOrder(_)
IterOrder(coll) ==
    IF coll = {} THEN <<>>
    ELSE LET o == CHOOSE x \in coll : \A y \in coll : x.id <= y.id
         IN  <<o>> \o IterOrder(coll \ {o})

----
\* The batching client.

\* The most requests the sender puts in one batch: batch.fixed_size(batch_size=100)
\* in migrate_data; batch.dynamic() in batch_import_data, where the client picks
\* the size itself and batch_size is not handed to it.
BatchLimit(f, n) == IF f = "migrate" THEN MigrateBatchSize ELSE n

Min(a, b) == IF a < b THEN a ELSE b

InWith == pc \in {"pull", "add", "check", "flush"}

\* The background sender submits the first n queued requests as one batch; the
\* sink rejects those at the positions bad (all of them: the whole batch).
SinkSend ==
    /\ InWith
    /\ queue # <<>>
    /\ \E n \in 1..Min(Len(queue), BatchLimit(fn, Len(queue))) :
       \E bad \in SUBSET (1..n) :
         LET batch == SubSeq(queue, 1, n)
             okReqs == SelectSeq2(batch, bad, FALSE)
             badReqs == SelectSeq2(batch, bad, TRUE)
         IN  /\ queue' = SubSeq(queue, n + 1, Len(queue))
             /\ db' = [db EXCEPT ![Target(fn)] = StoreAll(@, okReqs, nextId)]
             /\ nextId' = nextId + NumFresh(okReqs)
             /\ failed' = failed \o badReqs
             /\ sinkOK' = sinkOK + Len(okReqs)
             /\ stored' = stored + Len(okReqs)
             /\ lastBatch' = n
    /\ UNCHANGED <<fn, src, batch_size, error_threshold, runs, pc, idx, success_count,
                   error_count, vector_key, term, ret>>
    /\ UNCHANGED scriptVars

----
\* batch_import_data and migrate_data.

inputVars == <<fn, src, batch_size, error_threshold, runs>>

\* Lines 43-47: the collection is obtained and the batch opened, or that raises.
GetCollection ==
    /\ pc = "get"
    /\ success_count' = 0
    /\ failed' = <<>>
    /\ pc' = "pull"
    /\ UNCHANGED <<idx, error_count, vector_key, term, ret, queue, lastBatch, sinkOK,
                   stored, db, nextId>>
    /\ UNCHANGED inputVars /\ UNCHANGED scriptVars

GetCollectionRaises ==
    /\ pc = "get"
    /\ term' = "fatal"
    /\ pc' = "except"
    /\ UNCHANGED <<idx, success_count, error_count, vector_key, ret, queue, failed,
                   lastBatch, sinkOK, stored, db, nextId>>
    /\ UNCHANGED inputVars /\ UNCHANGED scriptVars

\* Lines 170-174: next() on an empty source raises StopIteration, reading it
\* may raise, and a first object without vectors raises ValueError.
FirstObjectFails ==
    \/ src = <<>>
    \/ VectorKeys(src[1]) = <<>>

\* Line 176.
SelectVectorKey(first_obj) == VectorKeys(first_obj)[1]

\* Lines 170-182.
FirstObject ==
    /\ pc = "first"
    /\ ~FirstObjectFails
    /\ vector_key' = SelectVectorKey(src[1])
    /\ success_count' = 0
    /\ error_count' = 0
    /\ failed' = <<>>
    /\ pc' = "pull"
    /\ UNCHANGED <<idx, term, ret, queue, lastBatch, sinkOK, stored, db, nextId>>
    /\ UNCHANGED inputVars /\ UNCHANGED scriptVars

\* Lines 170-182, raising: the source cannot be read or has no usable first
\* object, or the target batch cannot be opened.
FirstObjectRaises ==
    /\ pc = "first"
    /\ term' = "fatal"
    /\ pc' = "except"
    /\ UNCHANGED <<idx, success_count, error_count, vector_key, ret, queue, failed,
                   lastBatch, sinkOK, stored, db, nextId>>
    /\ UNCHANGED inputVars /\ UNCHANGED scriptVars

\* Lines 48 and 183: the for loop takes the next record.
PullNext ==
    /\ pc = "pull"
    /\ idx < Len(src)
    /\ idx' = idx + 1
    /\ pc' = "add"
    /\ UNCHANGED <<success_count, error_count, vector_key, term, ret, queue, failed,
                   lastBatch, sinkOK, stored, db, nextId>>
    /\ UNCHANGED inputVars /\ UNCHANGED scriptVars

\* Lines 48 and 183: reading the source raises; the exception leaves the with
\* block, which still sends what is queued, and reaches the outer except.
PullRaises ==
    /\ pc = "pull"
    /\ idx < Len(src)
    /\ term' = "fatal"
    /\ pc' = "flush"
    /\ UNCHANGED <<idx, success_count, error_count, vector_key, ret, queue, failed,
                   lastBatch, sinkOK, stored, db, nextId>>
    /\ UNCHANGED inputVars /\ UNCHANGED scriptVars

\* Lines 48 and 183: the source is exhausted.
PullExhausted ==
    /\ pc = "pull"
    /\ idx = Len(src)
    /\ term' = "exhausted"
    /\ pc' = "flush"
    /\ UNCHANGED <<idx, success_count, error_count, vector_key, ret, queue, failed,
                   lastBatch, sinkOK, stored, db, nextId>>
    /\ UNCHANGED inputVars /\ UNCHANGED scriptVars

\* Where the loop goes after a record was added: batch_import_data checks the
\* errors (line 61), migrate_data takes the next record (line 192 only prints).
AfterAdd(f) == IF f = "import" THEN "check" ELSE "pull"

\* Lines 51-58 and 185-190: the record is added and counted.
AddObject ==
    /\ pc = "add"
    /\ ~Raises(fn, src[idx], vector_key)
    /\ queue' = Append(queue, Request(fn, src[idx], vector_key))
    /\ success_count' = success_count + 1
    /\ pc' = AfterAdd(fn)
    /\ UNCHANGED <<idx, error_count, vector_key, term, ret, failed, lastBatch, sinkOK,
                   stored, db, nextId>>
    /\ UNCHANGED inputVars /\ UNCHANGED scriptVars

\* error_count after the except clause: line 196 in migrate_data; the except
\* clause of batch_import_data (lines 65-68) only prints.
CountError(f, n) == IF f = "migrate" THEN n + 1 ELSE n

\* Lines 65-68 and 195-198: building the arguments raised, the loop continues.
AddObjectRaises ==
    /\ pc = "add"
    /\ Raises(fn, src[idx], vector_key)
    /\ error_count' = CountError(fn, error_count)
    /\ pc' = "pull"
    /\ UNCHANGED <<idx, success_count, vector_key, term, ret, queue, failed, lastBatch,
                   sinkOK, stored, db, nextId>>
    /\ UNCHANGED inputVars /\ UNCHANGED scriptVars

\* Lines 61-63: break.
CheckBreak ==
    /\ pc = "check"
    /\ ThresholdExceeded
    /\ term' = "threshold"
    /\ pc' = "flush"
    /\ UNCHANGED <<idx, success_count, error_count, vector_key, ret, queue, failed,
                   lastBatch, sinkOK, stored, db, nextId>>
    /\ UNCHANGED inputVars /\ UNCHANGED scriptVars

\* Line 61, not exceeded.
CheckContinue ==
    /\ pc = "check"
    /\ ~ThresholdExceeded
    /\ pc' = "pull"
    /\ UNCHANGED <<idx, success_count, error_count, vector_key, term, ret, queue, failed,
                   lastBatch, sinkOK, stored, db, nextId>>
    /\ UNCHANGED inputVars /\ UNCHANGED scriptVars

\* The result being read without waiting for the queued requests.
LeftWithoutFlush == TRUE

\* Whether the with block may be left: everything queued has been sent.
Flushed == queue = <<>>

\* Where control goes when the with block is left.
AfterWith(t) == IF t = "fatal" THEN "except" ELSE "summary"

\* End of the with block (lines 47 and 182).
LeaveWith ==
    /\ pc = "flush"
    /\ Flushed
    /\ pc' = AfterWith(term)
    /\ UNCHANGED <<idx, success_count, error_count, vector_key, term, ret, queue, failed,
                   lastBatch, sinkOK, stored, db, nextId>>
    /\ UNCHANGED inputVars /\ UNCHANGED scriptVars

\* The except clause returning what was counted so far.
FatalReturnKeepsCounts(f) ==
    [success_count |-> success_count, failed_objects |-> failed, ok |-> FALSE]

NormalReturn(f) == IF f = "import" THEN ImportReturn ELSE MigrateReturn
FatalReturn(f) == IF f = "import" THEN ImportFatalReturn ELSE MigrateFatalReturn

\* Lines 71-80 and 200-204.
Return ==
    /\ pc = "summary"
    /\ ret' = NormalReturn(fn)
    /\ pc' = "done"
    /\ UNCHANGED <<idx, success_count, error_count, vector_key, term, queue, failed,
                   lastBatch, sinkOK, stored, db, nextId>>
    /\ UNCHANGED inputVars /\ UNCHANGED scriptVars

\* Lines 82-84 and 206-208.
ReturnFatal ==
    /\ pc = "except"
    /\ ret' = FatalReturn(fn)
    /\ pc' = "done"
    /\ UNCHANGED <<idx, success_count, error_count, vector_key, term, queue, failed,
                   lastBatch, sinkOK, stored, db, nextId>>
    /\ UNCHANGED inputVars /\ UNCHANGED scriptVars

\* The first position of a function.
Entry(f) == IF f = "import" THEN "get" ELSE "first"

\* A caller calls the function (again) with the same arguments.
Call ==
    /\ spc = "none"
    /\ pc \in {"idle", "done"}
    /\ runs < MaxRuns
    /\ runs' = runs + 1
    /\ pc' = Entry(fn)
    /\ idx' = 0
    /\ success_count' = 0
    /\ error_count' = 0
    /\ vector_key' = ""
    /\ term' = "none"
    /\ ret' = NoReturn
    /\ queue' = <<>>
    /\ lastBatch' = 0
    /\ sinkOK' = 0
    /\ UNCHANGED <<fn, src, batch_size, error_threshold, failed, stored, db, nextId>>
    /\ UNCHANGED scriptVars

ProgramStep ==
    \/ GetCollection
    \/ GetCollectionRaises
    \/ FirstObject
    \/ FirstObjectRaises
    \/ PullNext
    \/ PullRaises
    \/ PullExhausted
    \/ AddObject
    \/ AddObjectRaises
    \/ CheckBreak
    \/ CheckContinue
    \/ LeaveWith
    \/ Return
    \/ ReturnFatal

EmptyDb == [c \in {OriginalCollection, NewCollection} |-> {}]

Init ==
    /\ fn \in {"import", "migrate"}
    /\ src \in Sources(fn)
    /\ \E a \in IF fn = "import" THEN ImportArguments
                 ELSE { [batch_size |-> MigrateBatchSize, error_threshold |-> 0] } :
         /\ batch_size = a.batch_size
         /\ error_threshold = a.error_threshold
    /\ pc = "idle"
    /\ idx = 0
    /\ success_count = 0
    /\ error_count = 0
    /\ vector_key = ""
    /\ term = "none"
    /\ ret = NoReturn
    /\ queue = <<>>
    /\ failed = <<>>
    /\ lastBatch = 0
    /\ sinkOK = 0
    /\ stored = 0
    /\ db = EmptyDb
    /\ nextId = 1
    /\ runs = 0
    /\ spc = "none"
    /\ collection_names = {}
    /\ exists = {}
    /\ scriptRuns = 0
    /\ migrated = {}
    /\ created = {}

Next == Call \/ ProgramStep \/ SinkSend

Spec == Init /\ [][Next]_vars

\* The interpreter runs the function to its end and the client's sender thread
\* keeps sending while requests are queued.
FairSpec == Spec /\ WF_vars(ProgramStep) /\ WF_vars(SinkSend)

----
\* The script (lines 213-316).

\* source_objects (lines 19-25): five dicts with title and description.
source_objects ==
    [i \in 1..NumSourceObjects |->
        [id |-> NoId, props |-> [title |-> i, description |-> i], vec |-> <<>>]]

\* The locals of a function at its call.
EnterFunction(f) ==
    /\ fn' = f
    /\ pc' = Entry(f)
    /\ idx' = 0
    /\ success_count' = 0
    /\ error_count' = 0
    /\ vector_key' = ""
    /\ term' = "none"
    /\ ret' = NoReturn
    /\ queue' = <<>>
    /\ lastBatch' = 0
    /\ sinkOK' = 0

functionVars == <<fn, src, batch_size, error_threshold, pc, idx, success_count,
                  error_count, vector_key, term, ret, queue, lastBatch, sinkOK>>

\* Lines 215-216: a run of the script lists the collections.
ScriptStart ==
    /\ spc \in {"start", "closed"}
    /\ scriptRuns < MaxScriptRuns
    /\ scriptRuns' = scriptRuns + 1
    /\ collection_names' = exists
    /\ spc' = "orig"
    /\ UNCHANGED <<exists, migrated, created, runs, failed, stored, db, nextId>>
    /\ UNCHANGED functionVars

\* Lines 219-237: OriginalCollection is created and batch_import_data called.
ScriptCreateOriginal ==
    /\ spc = "orig"
    /\ OriginalCollection \notin collection_names
    /\ exists' = exists \cup {OriginalCollection}
    /\ EnterFunction("import")
    /\ src' = source_objects
    /\ batch_size' = DefaultBatchSize
    /\ error_threshold' = DefaultErrorThreshold
    /\ spc' = "importing"
    /\ UNCHANGED <<collection_names, scriptRuns, migrated, created, runs, failed, stored,
                   db, nextId>>

\* Line 237 returns.
ScriptImportReturns ==
    /\ spc = "importing"
    /\ pc = "done"
    /\ spc' = "new"
    /\ UNCHANGED <<collection_names, exists, scriptRuns, migrated, created, runs, failed,
                   stored, db, nextId>>
    /\ UNCHANGED functionVars

\* Lines 238-259: the queries on OriginalCollection.
ScriptQueryOriginal ==
    /\ spc = "orig"
    /\ OriginalCollection \in collection_names
    /\ spc' = "new"
    /\ UNCHANGED <<collection_names, exists, scriptRuns, migrated, created, runs, failed,
                   stored, db, nextId>>
    /\ UNCHANGED functionVars

\* Lines 262-278: NewCollection is created; the try block ends.
ScriptCreateNew ==
    /\ spc = "new"
    /\ NewCollection \notin collection_names
    /\ exists' = exists \cup {NewCollection}
    /\ created' = created \cup {scriptRuns}
    /\ spc' = "closed"
    /\ UNCHANGED <<collection_names, scriptRuns, migrated, runs, failed, stored, db, nextId>>
    /\ UNCHANGED functionVars

\* The probe left out: the migration is started whatever the target holds.
ProbeSkipped(tgt) == TRUE

\* The probe of line 289: next(data_tgt.iterator(), None) is None.
ProbeFindsEmpty(tgt) == db[tgt] = {}

\* Lines 280-290: the target holds an object, no migration.
ScriptSkipMigration ==
    /\ spc = "new"
    /\ NewCollection \in collection_names
    /\ ~ProbeFindsEmpty(NewCollection)
    /\ spc' = "tail"
    /\ UNCHANGED <<collection_names, exists, scriptRuns, migrated, created, runs, failed,
                   stored, db, nextId>>
    /\ UNCHANGED functionVars

\* Lines 280-293: the target is empty, migrate_data is called on the two
\* collections.
ScriptMigrate ==
    /\ spc = "new"
    /\ NewCollection \in collection_names
    /\ ProbeFindsEmpty(NewCollection)
    /\ EnterFunction("migrate")
    /\ src' = IterOrder(db[OriginalCollection])
    /\ migrated' = migrated \cup {scriptRuns}
    /\ spc' = "migrating"
    /\ UNCHANGED <<batch_size, error_threshold>>
    /\ UNCHANGED <<collection_names, exists, scriptRuns, created, runs, failed, stored,
                   db, nextId>>

\* Line 293 returns.
ScriptMigrateReturns ==
    /\ spc = "migrating"
    /\ pc = "done"
    /\ spc' = "tail"
    /\ UNCHANGED <<collection_names, exists, scriptRuns, migrated, created, runs, failed,
                   stored, db, nextId>>
    /\ UNCHANGED functionVars

\* Lines 295-316: the queries on NewCollection, then the client is closed.
ScriptTail ==
    /\ spc = "tail"
    /\ spc' = "closed"
    /\ UNCHANGED <<collection_names, exists, scriptRuns, migrated, created, runs, failed,
                   stored, db, nextId>>
    /\ UNCHANGED functionVars

\* Lines 313-316: a call to the server raises (a create, a query, generate);
\* the except clause prints and the client is closed.
ScriptRaises ==
    /\ spc \in {"orig", "new", "tail"}
    /\ spc' = "closed"
    /\ UNCHANGED <<collection_names, exists, scriptRuns, migrated, created, runs, failed,
                   stored, db, nextId>>
    /\ UNCHANGED functionVars

ScriptInit ==
    /\ fn = "import"
    /\ src = <<>>
    /\ batch_size = DefaultBatchSize
    /\ error_threshold = DefaultErrorThreshold
    /\ pc = "idle"
    /\ idx = 0
    /\ success_count = 0
    /\ error_count = 0
    /\ vector_key = ""
    /\ term = "none"
    /\ ret = NoReturn
    /\ queue = <<>>
    /\ failed = <<>>
    /\ lastBatch = 0
    /\ sinkOK = 0
    /\ stored = 0
    /\ db = EmptyDb
    /\ nextId = 1
    /\ runs = 0
    /\ spc = "start"
    /\ collection_names = {}
    /\ exists \in SUBSET {OriginalCollection, NewCollection}
    /\ scriptRuns = 0
    /\ migrated = {}
    /\ created = {}

\* The steps of the two functions as the script calls them.  The script passes
\* five objects that have both keys and the default threshold of 10, and the
\* objects of OriginalCollection all carry the vector its vectorizer wrote, so
\* the except clauses of the loops and the break of line 63 are not reachable
\* from the script (ScriptLoopsNeverFail) and are left out of its steps.
ScriptProgramStep ==
    \/ GetCollection
    \/ GetCollectionRaises
    \/ FirstObject
    \/ FirstObjectRaises
    \/ PullNext
    \/ PullRaises
    \/ PullExhausted
    \/ AddObject
    \/ CheckContinue
    \/ LeaveWith
    \/ Return
    \/ ReturnFatal

ScriptNext ==
    \/ ScriptStart
    \/ ScriptCreateOriginal
    \/ ScriptImportReturns
    \/ ScriptQueryOriginal
    \/ ScriptCreateNew
    \/ ScriptSkipMigration
    \/ ScriptMigrate
    \/ ScriptMigrateReturns
    \/ ScriptTail
    \/ ScriptRaises
    \/ ScriptProgramStep
    \/ SinkSend

\* The steps left out of ScriptProgramStep are never enabled under ScriptSpec.
ScriptLoopsNeverFail ==
    /\ pc = "add" => ~Raises(fn, src[idx], vector_key)
    /\ pc = "check" => ~ThresholdExceeded

ScriptSpec == ScriptInit /\ [][ScriptNext]_vars

----
\* What the claims speak of.

\* The success count and the number of failures a call reports: the tuple
\* batch_import_data returns (line 80, line 84); migrate_data returns a bool
\* and reports its two counters in the summary it prints (lines 201-202).
ReportedSuccess == IF fn = "import" THEN ret.success_count ELSE success_count
ReportedFailures == IF fn = "import" THEN Len(ret.failed_objects) ELSE error_count

\* Records the loop is through with.
Processed == IF pc = "add" THEN idx - 1 ELSE idx

\* Records whose add raised inside the loop.
NumRaised == Cardinality({ i \in 1..Processed : Raises(fn, src[i], vector_key) })

Done == pc = "done"
Started == pc \in {"get", "first"}

\* A step that starts a call.
CallStep == pc \in {"idle", "done"} /\ pc' \in {"get", "first"}

----
\* C1: the success count reported at the end of a run is the number of records
\* the sink reported as stored.
C1_SuccessCountIsSinkSuccesses ==
    (Done /\ term # "fatal") => ReportedSuccess = sinkOK

\* C2: once more than error_threshold failures have been reported no further
\* record is pulled, and the loop is left for the threshold only then.
C2_ThresholdStopsPulling ==
    [][ /\ (InWith /\ number_errors > error_threshold) => ~(idx' > idx)
        /\ (term # "threshold" /\ term' = "threshold") => number_errors > error_threshold
      ]_vars

\* C3: at the end of a run the reported successes and failures account for
\* every record pulled.
C3_EveryRecordAccounted ==
    (Done /\ (fn = "import" \/ term # "fatal"))
        => ReportedSuccess + ReportedFailures >= idx

C5_PerRecordErrorRecorded ==
    (Done /\ term = "exhausted")
        => (idx = Len(src) /\ ReportedFailures = NumRaised + number_errors)

\* C6: migrate_data selects the first vector name of the first object once and
\* uses it for every record; a record without a vector under it is counted as
\* an error and the loop goes on; every other record is handed to the target
\* with its identifier, its properties and its vector under that name.
C6_MigrateCopiesUnderOneKey ==
    (fn = "migrate" /\ vector_key # "") =>
        /\ vector_key = src[1].vec[1][1]
        /\ success_count =
             Cardinality({ i \in 1..Processed :
                 \E j \in 1..Len(src[i].vec) : src[i].vec[j][1] = vector_key })
        /\ error_count =
             Cardinality({ i \in 1..Processed :
                 \A j \in 1..Len(src[i].vec) : src[i].vec[j][1] # vector_key })
        /\ \A k \in 1..Len(queue \o failed) :
             LET r == (queue \o failed)[k]
             IN  \E i \in 1..Processed :
                   /\ r.uuid = src[i].id
                   /\ r.properties = src[i].props
                   /\ \E j \in 1..Len(src[i].vec) : src[i].vec[j] = <<vector_key, r.vector>>
        /\ \A o \in db[NewCollection] :
             \E i \in 1..Len(src) :
               /\ o.id = src[i].id
               /\ o.props = src[i].props
               /\ \E j \in 1..Len(src[i].vec) : src[i].vec[j] = <<vector_key, o.vec[1][2]>>
        /\ (Done /\ term = "exhausted") => idx = Len(src)

\* C6: three records, the first with two named vectors, the second without a
\* vector under the selected name, the third stored.
C6_Witness ==
    /\ fn = "migrate" /\ Done /\ term = "exhausted"
    /\ Len(src) = 3 /\ Len(src[1].vec) = 2 /\ vector_key = DV
    /\ ~HasVector(src[2], vector_key)
    /\ error_count = 1 /\ success_count = 2
    /\ \E o \in db[NewCollection] : o.id = src[3].id

\* C7 as claimed: re-running leaves no duplicates, for both functions: the
\* target never holds more objects than the source has records.
C7_RerunAddsNoDuplicates ==
    Cardinality(db[Target(fn)]) <= Len(src)

\* C7 as amended: every write of migrate_data carries the identifier of its
\* source record, so the target holds at most one object per source record
\* however often the migration is run.
C7_MigrateWritesCarryId ==
    fn = "migrate" =>
        /\ \A k \in 1..Len(queue \o failed) :
             LET r == (queue \o failed)[k]
             IN  r.uuid # NoId /\ \E i \in 1..Len(src) : r.uuid = src[i].id
        /\ \A o \in db[NewCollection] : \E i \in 1..Len(src) : o.id = src[i].id
        /\ Cardinality(db[NewCollection]) <= Len(src)
        /\ nextId = 1

\* C7: the second migration has stored every record again over the first's.
C7_Witness ==
    /\ fn = "migrate" /\ runs = 2 /\ Done
    /\ Len(src) = 2 /\ sinkOK = 2 /\ stored = 4
    /\ Cardinality(db[NewCollection]) = 2

\* C8: every batch submitted holds at least one and at most batch_size
\* requests (100 in migrate_data).
C8_BatchSizeBounded ==
    lastBatch # 0 => (1 <= lastBatch /\ lastBatch <= batch_size)

\* C9: a call goes from its entry through the loop to exactly one of
\* exhausted, threshold and fatal and then to done; it reaches done; after
\* done nothing is pulled or submitted; the result is set only on reaching
\* done, when everything queued has been submitted.
PcOrder ==
    { <<"idle", "get">>, <<"idle", "first">>, <<"done", "get">>, <<"done", "first">>,
      <<"get", "pull">>, <<"first", "pull">>, <<"get", "except">>, <<"first", "except">>,
      <<"pull", "add">>, <<"add", "pull">>, <<"add", "check">>, <<"check", "pull">>,
      <<"pull", "flush">>, <<"check", "flush">>,
      <<"flush", "summary">>, <<"flush", "except">>,
      <<"summary", "done">>, <<"except", "done">> }

C10_MigrationGuard ==
    /\ [][ /\ migrated' # migrated =>
                /\ pc' = "first"
                /\ NewCollection \in collection_names
                /\ db[NewCollection] = {}
           /\ (pc' = "first" /\ pc # "first") => migrated' = migrated \cup {scriptRuns}
           /\ db[NewCollection] # {} => migrated' = migrated
         ]_vars
    /\ [](migrated \cap created = {})

\* C10: a migration that stored only part of the source, and a later run of
\* the script that left it so.
C10_Witness ==
    /\ spc = "closed" /\ scriptRuns = 3 /\ migrated = {2}
    /\ Cardinality(db[NewCollection]) > 0
    /\ Cardinality(db[NewCollection]) < Cardinality(db[OriginalCollection])

====
